---- MODULE Spec2Model ----
(***************************************************************************)
(* Thai Lotto AI: the next-draw-date resolver and the Gemini service       *)
(* (src/unnamed/part_001, imported by the App as services/geminiService)   *)
(* and the App component's state (src/App.tsx).                            *)
(*                                                                         *)
(* Strings of the program whose characters matter (digit strings) are      *)
(* sequences of one-character strings; fixed Thai texts are written in     *)
(* romanised form.                                                         *)
(***************************************************************************)
EXTENDS Integers, Sequences, FiniteSets, TLC

VARIABLES
    today,        \* the local clock read by new Date()
    resolved,     \* last stand-alone result of getNextDrawDate
    aiCall,       \* the generateLuckyNumbersAI call (request, response, outcome)
    ticks,        \* hours the clock has advanced since the start
    currentSet,   \* App state: useState(initialSet)
    isRolling,    \* App state: useState(false)
    mode,         \* App state: useState(GeneratorMode.RNG)
    error,        \* App state: useState(null)
    pastDraw,     \* App state: useState(null)
    loadingPast,  \* App state: useState(true)
    guruStats,    \* App state: useState([])
    loadingGuru,  \* App state: useState(true)
    timer,        \* the pending setTimeout of the RNG path
    pastCall,     \* the getLatestDrawResults call of fetchData
    guruCall,     \* the getGuruStats call of fetchData
    fetchData     \* position of the mount effect: "idle", "awaiting", "done"

appVars ==
    <<currentSet, isRolling, mode, error, pastDraw, loadingPast, guruStats,
      loadingGuru, timer, pastCall, guruCall, fetchData>>

vars == <<today, resolved, aiCall, ticks, appVars>>

-----------------------------------------------------------------------------
(* Bounds of the model *)

FirstYear == 2024
MaxYears == 2
MaxTicks == 1
MaxStrLen == 7
MaxEntryLen == 4
MaxArrLen == 3
MaxStride == 1

Years == FirstYear..(FirstYear + MaxYears - 1)

-----------------------------------------------------------------------------
(* Calendar: the fields of a JavaScript Date in local time.                *)
(* month is 0-based as returned by getMonth().                             *)

IsLeapYear(y) == (y % 4 = 0 /\ y % 100 # 0) \/ y % 400 = 0

DaysInMonth(y, m) ==
    IF m = 1 THEN (IF IsLeapYear(y) THEN 29 ELSE 28)
    ELSE IF m \in {3, 5, 8, 10} THEN 30
    ELSE 31

Times ==
    { t \in [year : Years, month : 0..11, day : 1..31, hour : 0..23] :
        t.day <= DaysInMonth(t.year, t.month) }

\* new Date(year, monthIndex, day) with a day that exists in every month:
\* a monthIndex past 11 carries into the year.
NewDateNoCarry(y, m, d) == [year |-> y, month |-> m % 12, day |-> d]

NewDate(y, m, d) == [year |-> y + (m \div 12), month |-> m % 12, day |-> d]

\* Month names of the th-TH locale (romanised), January first.
ThaiMonths ==
    << "Makarakhom", "Kumphaphan", "Minakhom", "Mesayon",
       "Phruetsaphakhom", "Mithunayon", "Karakadakhom", "Singhakhom",
       "Kanyayon", "Tulakhom", "Phruetsachikayon", "Thanwakhom" >>

\* Date.prototype.toLocaleDateString('th-TH', {day:'numeric', month:'long',
\* year:'numeric'}): day, Thai month name, year of the Buddhist era.
toLocaleDateString(d) == <<d.day, ThaiMonths[d.month + 1], d.year + 543>>

\* getNextDrawDate without the branch for the 16th before the cutoff.
getNextDrawDateNoSixteenthBranch(now) ==
    LET currentDay == now.day
        currentMonth == now.month
        currentYear == now.year
        currentHour == now.hour
        targetDate ==
            IF currentDay = 1
            THEN IF currentHour >= 16
                 THEN NewDate(currentYear, currentMonth, 16)
                 ELSE NewDate(currentYear, currentMonth, 1)
            ELSE IF currentDay > 1 /\ currentDay < 16
            THEN NewDate(currentYear, currentMonth, 16)
            ELSE NewDate(currentYear, currentMonth + 1, 1)
    IN  toLocaleDateString(targetDate)

getNextDrawDateLateCutoff(now) ==
    LET currentDay == now.day
        currentMonth == now.month
        currentYear == now.year
        currentHour == now.hour
        targetDate ==
            IF currentDay = 1
            THEN IF currentHour > 16
                 THEN NewDate(currentYear, currentMonth, 16)
                 ELSE NewDate(currentYear, currentMonth, 1)
            ELSE IF currentDay > 1 /\ currentDay < 16
            THEN NewDate(currentYear, currentMonth, 16)
            ELSE IF currentDay = 16
            THEN IF currentHour > 16
                 THEN NewDate(currentYear, currentMonth + 1, 1)
                 ELSE NewDate(currentYear, currentMonth, 16)
            ELSE NewDate(currentYear, currentMonth + 1, 1)
    IN  toLocaleDateString(targetDate)

getNextDrawDate(now) ==
    LET currentDay == now.day
        currentMonth == now.month
        currentYear == now.year
        currentHour == now.hour
        targetDate ==
            IF currentDay = 1
            THEN IF currentHour >= 16
                 THEN NewDate(currentYear, currentMonth, 16)
                 ELSE NewDate(currentYear, currentMonth, 1)
            ELSE IF currentDay > 1 /\ currentDay < 16
            THEN NewDate(currentYear, currentMonth, 16)
            ELSE IF currentDay = 16
            THEN IF currentHour >= 16
                 THEN NewDate(currentYear, currentMonth + 1, 1)
                 ELSE NewDate(currentYear, currentMonth, 16)
            ELSE NewDate(currentYear, currentMonth + 1, 1)
    IN  toLocaleDateString(targetDate)

NoLabel == <<0, "", 0>>
NoTime == [year |-> 0, month |-> 0, day |-> 0, hour |-> 0]
NotResolved == [done |-> FALSE, now |-> NoTime, label |-> NoLabel]

-----------------------------------------------------------------------------
(* JavaScript values of a parsed response.  Every value has the same shape: *)
(* t is the type tag, s the characters of a string, n a number, a the       *)
(* entries of an array (entries are values without nested arrays).          *)

Undefined == [t |-> "undefined", s |-> <<>>, n |-> 0, a |-> <<>>]
Null == [t |-> "null", s |-> <<>>, n |-> 0, a |-> <<>>]
Str(x) == [t |-> "string", s |-> x, n |-> 0, a |-> <<>>]
Num(k) == [t |-> "number", s |-> <<>>, n |-> k, a |-> <<>>]
Arr(xs) == [t |-> "array", s |-> <<>>, n |-> 0, a |-> xs]
Obj == [t |-> "object", s |-> <<>>, n |-> 0, a |-> <<>>]

\* JavaScript truthiness (the left operand of ||).
Truthy(v) ==
    \/ v.t \in {"array", "object"}
    \/ v.t = "string" /\ v.s # <<>>
    \/ v.t = "number" /\ v.n # 0

\* An expression either yields a value or throws a TypeError.
Ok(x) == [ok |-> TRUE, v |-> x]
Throws == [ok |-> FALSE, v |-> <<>>]

Repeat(c, n) == [i \in 1..n |-> c]

\* String.prototype.padEnd(targetLength, padString) with a one-character pad.
padEnd(str, targetLength, padString) ==
    IF Len(str) >= targetLength THEN str
    ELSE str \o Repeat(padString, targetLength - Len(str))

\* slice(0, end) of a string or of an array.
slice(seq, end) == IF Len(seq) <= end THEN seq ELSE SubSeq(seq, 1, end)

\* data.f?.padEnd(width, '0').slice(0, width) || zeros      (lines 251-252)
\* undefined and null short-circuit the optional chain; any other non-string
\* has no padEnd method, and calling it throws.
scalarDigitsNoPad(field, width) ==
    IF field.t \in {"undefined", "null"} THEN Ok(Repeat("0", width))
    ELSE IF field.t # "string" THEN Throws
    ELSE LET cut == slice(field.s, width)
         IN  IF cut = <<>> THEN Ok(Repeat("0", width)) ELSE Ok(cut)

scalarDigitsNoOptionalChain(field, width) ==
    IF field.t # "string" THEN Throws
    ELSE LET cut == slice(padEnd(field.s, width, "0"), width)
         IN  IF cut = <<>> THEN Ok(Repeat("0", width)) ELSE Ok(cut)

scalarDigits(field, width) ==
    IF field.t \in {"undefined", "null"} THEN Ok(Repeat("0", width))
    ELSE IF field.t # "string" THEN Throws
    ELSE LET cut == slice(padEnd(field.s, width, "0"), width)
         IN  IF cut = <<>> THEN Ok(Repeat("0", width)) ELSE Ok(cut)

\* (data.f || []).map((n: string) => n.padEnd(3, '0').slice(0, 3))  (253-254)
\* A truthy non-array has no map method; an entry that is not a string has
\* no padEnd method.
arrayDigits(field) ==
    IF ~Truthy(field) THEN Ok(<<>>)
    ELSE IF field.t # "array" THEN Throws
    ELSE IF \E i \in 1..Len(field.a) : field.a[i].t # "string" THEN Throws
    ELSE Ok([i \in 1..Len(field.a) |-> slice(padEnd(field.a[i].s, 3, "0"), 3)])

pushOnce(arr) == IF Len(arr) < 2 THEN Append(arr, Repeat("0", 3)) ELSE arr

\* while (arr.length < 2) arr.push('000')                          (257-258)
RECURSIVE pushWhileShort(_)
pushWhileShort(arr) ==
    IF Len(arr) < 2 THEN pushWhileShort(Append(arr, Repeat("0", 3))) ELSE arr

-----------------------------------------------------------------------------
(* Responses of ai.models.generateContent.                                 *)
(* kind "failure": the call rejects (network failure, rejected request).   *)
(* Otherwise response.text is undefined ("notext"), the empty string       *)
(* ("emptytext"), a text JSON.parse rejects ("unparsable"), or a text that *)
(* parses to data ("json").  Parsed data is an object with fields, null,   *)
(* or another value ("other": a number, string or array, whose named       *)
(* properties all read as undefined).                                      *)

NoFields ==
    [prize1 |-> Undefined, front3 |-> Undefined, rear3 |-> Undefined,
     rear2 |-> Undefined, reasoning |-> Undefined, confidence |-> Undefined,
     sources |-> Undefined, drawDate |-> Undefined, timestamp |-> Undefined,
     date |-> Undefined, source |-> Undefined]

\* Parsed data: items are the elements when the data is an array.
EmptyObject == [t |-> "object", fields |-> NoFields, items |-> <<>>]
Object(f) == [t |-> "object", fields |-> f, items |-> <<>>]
ArrayData(xs) == [t |-> "array", fields |-> NoFields, items |-> xs]
NullData == [t |-> "null", fields |-> NoFields, items |-> <<>>]
OtherData == [t |-> "other", fields |-> NoFields, items |-> <<>>]

\* chunks: response.candidates?.[0]?.groundingMetadata?.groundingChunks.
Failure == [kind |-> "failure", data |-> EmptyObject, chunks |-> Undefined]
NoText == [kind |-> "notext", data |-> EmptyObject, chunks |-> Undefined]
EmptyText == [kind |-> "emptytext", data |-> EmptyObject, chunks |-> Undefined]
Unparsable == [kind |-> "unparsable", data |-> EmptyObject, chunks |-> Undefined]
Json(d) == [kind |-> "json", data |-> d, chunks |-> Undefined]
NoResponse == [kind |-> "pending", data |-> EmptyObject, chunks |-> Undefined]

\* JSON.parse(response.text || fallback)             (lines 68, 159, 248)
\* An undefined or empty text is replaced by the fallback text, '{}' or '[]'.
JSONParseLenient(response, fallback) ==
    IF response.kind \in {"notext", "emptytext", "unparsable"} THEN Ok(fallback)
    ELSE Ok(response.data)

JSONParse(response, fallback) ==
    IF response.kind \in {"notext", "emptytext"} THEN Ok(fallback)
    ELSE IF response.kind = "unparsable" THEN Throws
    ELSE Ok(response.data)

-----------------------------------------------------------------------------
(* generateLuckyNumbersAI                                                   *)

GeneratorMode == {"RNG", "AI", "HISTORY", "GURU"}

\* switch (mode): prompt and systemInstruction, both carrying nextDrawDate
\* only.                                                   (lines 198-212)
buildPrompt(m, nextDrawDate) ==
    IF m = "HISTORY"
    THEN [template |-> "HISTORY", drawDate |-> nextDrawDate,
          systemInstruction |-> "data analyst"]
    ELSE IF m = "GURU"
    THEN [template |-> "GURU", drawDate |-> nextDrawDate,
          systemInstruction |-> "lottery aggregator"]
    ELSE [template |-> "AI", drawDate |-> nextDrawDate,
          systemInstruction |-> "fortune teller"]

NoPrompt == [template |-> "", drawDate |-> NoLabel, systemInstruction |-> ""]

\* The value slot of a call that produced no LotterySet.
NoSet ==
    [prize1 |-> <<>>, front3 |-> <<>>, rear3 |-> <<>>, rear2 |-> <<>>,
     source |-> "", reasoning |-> Undefined, confidence |-> Undefined,
     sources |-> Undefined, drawDate |-> NoLabel, timestamp |-> NoTime]

Resolved(x) == [status |-> "resolved", value |-> x, error |-> ""]
Rejected(msg) == [status |-> "rejected", value |-> NoSet, error |-> msg]
Unsettled == [status |-> "pending", value |-> NoSet, error |-> ""]

\* sourceStr without the mapping: the requested mode is passed through.
sourceStrEcho(m) == m

\* let sourceStr = 'AI'; if HISTORY ...; if GURU ...       (lines 260-262)
sourceStr(m) ==
    IF m = "GURU" THEN "GURU" ELSE IF m = "HISTORY" THEN "HISTORY" ELSE "AI"

\* generateLuckyNumbersAI resolving the draw date again when it builds the
\* record instead of using the label of line 194.
generateLuckyNumbersAIRestamps(m, nextDrawDate, response, now) ==
    IF response.kind = "failure" THEN Rejected("Failed to consult the oracle.")
    ELSE
    LET parsed == JSONParse(response, EmptyObject) IN
    IF ~parsed.ok THEN Rejected("Failed to consult the oracle.")
    ELSE IF parsed.v.t = "null" THEN Rejected("Failed to consult the oracle.")
    ELSE
    LET data == parsed.v.fields
        prize1 == scalarDigits(data.prize1, 6)
        rear2 == scalarDigits(data.rear2, 2)
        front3 == arrayDigits(data.front3)
        rear3 == arrayDigits(data.rear3)
    IN  IF ~(prize1.ok /\ rear2.ok /\ front3.ok /\ rear3.ok)
        THEN Rejected("Failed to consult the oracle.")
        ELSE Resolved(
            [prize1 |-> prize1.v,
             front3 |-> slice(pushWhileShort(front3.v), 2),
             rear3 |-> slice(pushWhileShort(rear3.v), 2),
             rear2 |-> rear2.v,
             source |-> sourceStr(m),
             reasoning |-> IF Truthy(data.reasoning) THEN data.reasoning
                           ELSE Str(<<"Analysis complete.">>),
             confidence |-> IF Truthy(data.confidence) THEN data.confidence
                            ELSE Undefined,
             sources |-> IF Truthy(data.sources) THEN data.sources ELSE Arr(<<>>),
             drawDate |-> getNextDrawDate(now),
             timestamp |-> now])

\* The part of generateLuckyNumbersAI after the await: lines 248-280.
\* now is the clock when the record is built (Date.now()).
generateLuckyNumbersAI(m, nextDrawDate, response, now) ==
    IF response.kind = "failure" THEN Rejected("Failed to consult the oracle.")
    ELSE
    LET parsed == JSONParse(response, EmptyObject) IN
    IF ~parsed.ok THEN Rejected("Failed to consult the oracle.")
    ELSE IF parsed.v.t = "null" THEN Rejected("Failed to consult the oracle.")
    ELSE
    LET data == parsed.v.fields
        prize1 == scalarDigits(data.prize1, 6)
        rear2 == scalarDigits(data.rear2, 2)
        front3 == arrayDigits(data.front3)
        rear3 == arrayDigits(data.rear3)
    IN  IF ~(prize1.ok /\ rear2.ok /\ front3.ok /\ rear3.ok)
        THEN Rejected("Failed to consult the oracle.")
        ELSE Resolved(
            [prize1 |-> prize1.v,
             front3 |-> slice(pushWhileShort(front3.v), 2),
             rear3 |-> slice(pushWhileShort(rear3.v), 2),
             rear2 |-> rear2.v,
             source |-> sourceStr(m),
             reasoning |-> IF Truthy(data.reasoning) THEN data.reasoning
                           ELSE Str(<<"Analysis complete.">>),
             confidence |-> IF Truthy(data.confidence) THEN data.confidence
                            ELSE Undefined,
             sources |-> IF Truthy(data.sources) THEN data.sources ELSE Arr(<<>>),
             drawDate |-> nextDrawDate,
             timestamp |-> now])

-----------------------------------------------------------------------------
(* getLatestDrawResults and getGuruStats                                   *)

\* a || b on values.
OrElse(v, default) == IF Truthy(v) THEN v ELSE default

\* groundingChunks.find((c) => c.web?.uri): a chunk is modelled by its
\* web.uri (a string), Obj for a chunk without one, Null for a null chunk,
\* whose c.web throws.  The result is the found chunk or Undefined.
findWebSource(chunks) ==
    LET hits == {i \in 1..Len(chunks) : chunks[i].t = "string" /\ Truthy(chunks[i])}
        first == IF hits = {} THEN Len(chunks) + 1
                 ELSE CHOOSE i \in hits : \A j \in hits : i <= j
    IN  IF \E i \in 1..Len(chunks) : i <= first /\ chunks[i].t = "null" THEN Throws
        ELSE IF hits = {} THEN Ok(Undefined)
        ELSE Ok(chunks[first])

\* The fallback record of the catch block, lines 89-95.
FailedPastDraw ==
    [date |-> Str(<<"lot khomun lomleo">>),
     prize1 |-> Str(Repeat("?", 6)),
     front3 |-> Arr(<<Str(Repeat("?", 3)), Str(Repeat("?", 3))>>),
     rear3 |-> Arr(<<Str(Repeat("?", 3)), Str(Repeat("?", 3))>>),
     rear2 |-> Str(Repeat("?", 2)),
     sourceUrl |-> Undefined]

\* The part of getLatestDrawResults after the await, lines 68-96, with the
\* catch block rethrowing instead of returning the fallback.
getLatestDrawResultsRethrow(response) ==
    LET parsed == JSONParse(response, EmptyObject)
        found == IF ~Truthy(response.chunks) THEN Ok(Undefined)
                 ELSE IF response.chunks.t # "array" THEN Throws
                 ELSE findWebSource(response.chunks.a)
    IN  IF \/ response.kind = "failure"
           \/ ~parsed.ok
           \/ parsed.v.t = "null"
           \/ ~found.ok
        THEN Rejected("Failed to fetch latest results")
        ELSE LET data == parsed.v.fields IN
             Resolved(
               [date |-> OrElse(data.date, Str(<<"mai phop khomun">>)),
                prize1 |-> OrElse(data.prize1, Str(Repeat("?", 6))),
                front3 |-> OrElse(data.front3,
                                  Arr(<<Str(Repeat("?", 3)), Str(Repeat("?", 3))>>)),
                rear3 |-> OrElse(data.rear3,
                                 Arr(<<Str(Repeat("?", 3)), Str(Repeat("?", 3))>>)),
                rear2 |-> OrElse(data.rear2, Str(Repeat("?", 2))),
                sourceUrl |-> found.v])

\* The part of getLatestDrawResults after the await, lines 68-96.
getLatestDrawResults(response) ==
    LET parsed == JSONParse(response, EmptyObject)
        found == IF ~Truthy(response.chunks) THEN Ok(Undefined)
                 ELSE IF response.chunks.t # "array" THEN Throws
                 ELSE findWebSource(response.chunks.a)
    IN  IF \/ response.kind = "failure"
           \/ ~parsed.ok
           \/ parsed.v.t = "null"
           \/ ~found.ok
        THEN Resolved(FailedPastDraw)
        ELSE LET data == parsed.v.fields IN
             Resolved(
               [date |-> OrElse(data.date, Str(<<"mai phop khomun">>)),
                prize1 |-> OrElse(data.prize1, Str(Repeat("?", 6))),
                front3 |-> OrElse(data.front3,
                                  Arr(<<Str(Repeat("?", 3)), Str(Repeat("?", 3))>>)),
                rear3 |-> OrElse(data.rear3,
                                 Arr(<<Str(Repeat("?", 3)), Str(Repeat("?", 3))>>)),
                rear2 |-> OrElse(data.rear2, Str(Repeat("?", 2))),
                sourceUrl |-> found.v])

\* A GuruStat, by its id, name and accuracy.
GuruStat(id, name, accuracy) == [id |-> id, name |-> name, accuracy |-> accuracy]

\* The fallback roster of the catch block, lines 163-188.
FallbackGurus ==
    <<GuruStat("1", "Mae Nam Nueng", 88), GuruStat("2", "Thai Lotto AI", 92)>>

\* getGuruStats with a catch block that rethrows.
getGuruStatsRethrow(response) ==
    LET parsed == JSONParse(response, ArrayData(<<>>))
    IN  IF response.kind = "failure" \/ ~parsed.ok
        THEN Rejected("Failed to fetch guru stats")
        ELSE Resolved(parsed.v)

\* getGuruStats with a catch block that returns an empty roster.
getGuruStatsEmptyFallback(response) ==
    LET parsed == JSONParse(response, ArrayData(<<>>))
    IN  IF response.kind = "failure" \/ ~parsed.ok
        THEN Resolved(ArrayData(<<>>))
        ELSE Resolved(parsed.v)

\* The part of getGuruStats after the await, lines 159-189: the parsed data
\* is returned as it is.
getGuruStats(response) ==
    LET parsed == JSONParse(response, ArrayData(<<>>))
    IN  IF response.kind = "failure" \/ ~parsed.ok
        THEN Resolved(ArrayData(FallbackGurus))
        ELSE Resolved(parsed.v)

NoCall ==
    [state |-> "none", mode |-> "", nextDrawDate |-> NoLabel, prompt |-> NoPrompt,
     response |-> NoResponse, outcome |-> Unsettled]

-----------------------------------------------------------------------------
(* The App component: initial state (src/App.tsx lines 13-35)              *)

Dashes(n) == [i \in 1..n |-> "-"]

\* const initialSet, built when the module loads.
initialSet(now) ==
    [prize1 |-> Dashes(6),
     front3 |-> <<Dashes(3), Dashes(3)>>,
     rear3 |-> <<Dashes(3), Dashes(3)>>,
     rear2 |-> Dashes(2),
     source |-> "RNG", reasoning |-> Undefined, confidence |-> Undefined,
     sources |-> Undefined,
     drawDate |-> getNextDrawDate(now), timestamp |-> now]

NoTimer == [armed |-> FALSE, nextDate |-> NoLabel]

InitApp ==
    /\ currentSet = initialSet(today)
    /\ isRolling = FALSE
    /\ mode = "RNG"
    /\ error = Null
    /\ pastDraw = Null
    /\ loadingPast = TRUE
    /\ guruStats = ArrayData(<<>>)
    /\ loadingGuru = TRUE
    /\ timer = NoTimer
    /\ pastCall = NoCall
    /\ guruCall = NoCall
    /\ fetchData = "idle"

-----------------------------------------------------------------------------
(* SpecDate: getNextDrawDate applied at every local time of the years.     *)

InitDate ==
    /\ today \in Times
    /\ resolved = NotResolved
    /\ aiCall = NoCall
    /\ ticks = 0
    /\ InitApp

ResolveNextDrawDate ==
    /\ ~resolved.done
    /\ resolved' = [done |-> TRUE, now |-> today, label |-> getNextDrawDate(today)]
    /\ UNCHANGED <<today, aiCall, ticks, appVars>>

NextDate == ResolveNextDrawDate

SpecDate == InitDate /\ [][NextDate]_vars

-----------------------------------------------------------------------------
(* The clock *)

\* One hour later, carrying into the day, the month and the year.
AdvanceHour(t) ==
    IF t.hour < 23 THEN [t EXCEPT !.hour = t.hour + 1]
    ELSE IF t.day < DaysInMonth(t.year, t.month)
    THEN [t EXCEPT !.hour = 0, !.day = t.day + 1]
    ELSE IF t.month < 11
    THEN [t EXCEPT !.hour = 0, !.day = 1, !.month = t.month + 1]
    ELSE [year |-> t.year + 1, month |-> 0, day |-> 1, hour |-> 0]

Tick ==
    /\ ticks < MaxTicks
    /\ ticks' = ticks + 1
    /\ today' = AdvanceHour(today)

-----------------------------------------------------------------------------
(* Response payloads fed to the service *)

DigitChars == <<"0", "1", "2", "3", "4", "5", "6", "7", "8", "9">>
Digits == {DigitChars[i] : i \in 1..10}

\* "1", "12", "123", ... and the same with one letter in it.
DigitString(n) == [i \in 1..n |-> DigitChars[(i % 10) + 1]]
LetterAt(n, k) == [i \in 1..n |-> IF i = k THEN "x" ELSE DigitChars[(i % 10) + 1]]

StringsUpTo(m) ==
    {DigitString(n) : n \in 0..m}
        \cup UNION {{LetterAt(n, 1), LetterAt(n, n)} : n \in 1..m}

SeqsUpTo(S, n) == UNION {[1..k -> S] : k \in 0..n}

ScalarValues ==
    {Undefined, Null, Num(0), Num(12), Obj, Arr(<<>>)}
        \cup {Str(x) : x \in StringsUpTo(MaxStrLen)}

Entries ==
    {Str(DigitString(n)) : n \in {0, 2, MaxEntryLen}} \cup {Str(<<"x">>), Null}

ArrayValues ==
    {Undefined, Null, Num(0), Num(3), Str(<<>>), Str(DigitString(3)), Obj}
        \cup {Arr(xs) : xs \in SeqsUpTo(Entries, MaxArrLen)}

WellFormedFields ==
    [prize1 |-> Str(DigitString(6)),
     front3 |-> Arr(<<Str(DigitString(3)), Str(<<"4", "5", "6">>)>>),
     rear3 |-> Arr(<<Str(<<"7", "8", "9">>), Str(<<"0", "0", "7">>)>>),
     rear2 |-> Str(<<"4", "2">>),
     reasoning |-> Str(<<"The stars align.">>),
     confidence |-> Num(80),
     sources |-> Arr(<<Str(<<"Astrology">>)>>),
     drawDate |-> Undefined, timestamp |-> Undefined, date |-> Undefined,
     source |-> Undefined]

\* The payload {prize1:"12", front3:["5"], rear2:""}.
ShortPayloadFields ==
    [NoFields EXCEPT !.prize1 = Str(<<"1", "2">>),
                     !.front3 = Arr(<<Str(<<"5">>)>>),
                     !.rear2 = Str(<<>>)]

BaseFields == {NoFields, WellFormedFields}

OtherArrays ==
    {Undefined, Arr(<<Str(<<"7">>), Str(DigitString(4)), Str(<<"9">>)>>)}

ReasoningValues == {Undefined, Str(<<>>), Str(<<"The stars align.">>), Num(5)}
ConfidenceValues == {Undefined, Num(0), Num(50), Num(100)}
SourcesValues == {Undefined, Arr(<<>>), Arr(<<Str(<<"Astrology">>)>>)}
DrawDateValues == {Undefined, Str(<<"1 Makarakhom 2500">>)}
TimestampValues == {Undefined, Num(1)}
SourceValues == {Undefined, Str(<<"RNG">>)}

\* Responses that carry no object.
PlainResponses ==
    {Failure, NoText, EmptyText, Unparsable, Json(NullData), Json(OtherData)}

-----------------------------------------------------------------------------
(* SpecService: one call of generateLuckyNumbersAI with any mode, against   *)
(* every response; the clock may advance while the request is pending.     *)

\* 16 December, 15:00: one hour before a draw-day cutoff.
CutoffEve == [year |-> FirstYear, month |-> 11, day |-> 16, hour |-> 15]

InitService ==
    /\ today = CutoffEve
    /\ resolved = NotResolved
    /\ aiCall = NoCall
    /\ ticks = 0
    /\ InitApp

\* Lines 192-246: resolve the draw date, build the prompt, send the request.
CallGenerate(m) ==
    /\ aiCall.state = "none"
    /\ LET nextDrawDate == getNextDrawDate(today)
       IN  aiCall' = [state |-> "pending", mode |-> m,
                      nextDrawDate |-> nextDrawDate,
                      prompt |-> buildPrompt(m, nextDrawDate),
                      response |-> NoResponse, outcome |-> Unsettled]
    /\ UNCHANGED <<today, resolved, ticks, appVars>>

\* The request settles and the rest of the function runs: lines 248-280.
GenerateSettles(r) ==
    /\ aiCall.state = "pending"
    /\ aiCall' = [aiCall EXCEPT
                    !.state = "settled",
                    !.response = r,
                    !.outcome = generateLuckyNumbersAI(aiCall.mode, aiCall.nextDrawDate, r, today)]
    /\ UNCHANGED <<today, resolved, ticks, appVars>>

\* Time passes while the request is pending.
ServiceTick ==
    aiCall.state = "pending" /\ Tick /\ UNCHANGED <<resolved, aiCall, appVars>>

\* The inputs of the settling request: every kind of response.
ResponseArrives ==
    /\ aiCall.state = "pending"
    /\ \/ \E r \in PlainResponses : GenerateSettles(r)
       \/ GenerateSettles(Json(Object(ShortPayloadFields)))
       \/ \E b \in BaseFields, p \in ScalarValues, r \in ScalarValues :
             GenerateSettles(Json(Object([b EXCEPT !.prize1 = p, !.rear2 = r])))
       \/ \E b \in BaseFields, f \in ArrayValues, r \in OtherArrays :
             GenerateSettles(Json(Object([b EXCEPT !.front3 = f, !.rear3 = r])))
       \/ \E b \in BaseFields, r \in ArrayValues :
             GenerateSettles(Json(Object([b EXCEPT !.rear3 = r])))
       \/ \E b \in BaseFields, r \in ReasoningValues, c \in ConfidenceValues,
             s \in SourcesValues, d \in DrawDateValues, t \in TimestampValues,
             o \in SourceValues :
             GenerateSettles(Json(Object(
                 [b EXCEPT !.reasoning = r, !.confidence = c, !.sources = s,
                           !.drawDate = d, !.timestamp = t, !.source = o])))

NextService ==
    \/ \E m \in GeneratorMode : CallGenerate(m)
    \/ ResponseArrives
    \/ ServiceTick

SpecService == InitService /\ [][NextService]_vars

-----------------------------------------------------------------------------
(* The App component (src/App.tsx)                                         *)

\* Math.random() outcomes of one generated set, as the tenth each of the 20
\* draws falls in: draw i of stream (seed, stride) is (seed + stride * i) % 10.
RandomStreams == {<<seed, stride>> : seed \in 0..9, stride \in 0..MaxStride}

\* getRandomDigit scaling the random number by 9.
getRandomDigitTimesNine(stream, i) == DigitChars[((stream[1] + stream[2] * i) % 9) + 1]

\* getRandomDigit: Math.floor(Math.random() * 10).toString()
getRandomDigit(stream, i) == DigitChars[((stream[1] + stream[2] * i) % 10) + 1]

\* generateString(length), drawing from position `from` of the stream.
generateString(length, stream, from) ==
    [i \in 1..length |-> getRandomDigit(stream, from + i)]

\* Responses of the external endpoint to the App's three requests.
PastFields ==
    [NoFields EXCEPT !.date = Str(<<"16 Minakhom 2568">>),
                     !.prize1 = Str(DigitString(6)),
                     !.front3 = Arr(<<Str(DigitString(3)), Str(<<"4", "5", "6">>)>>),
                     !.rear3 = Arr(<<Str(<<"7", "8", "9">>), Str(<<"0", "0", "7">>)>>),
                     !.rear2 = Str(<<"4", "2">>)]

WithChunks(r, c) == [r EXCEPT !.chunks = c]

PastResponses ==
    {Failure, Unparsable, Json(NullData),
     WithChunks(Json(Object(PastFields)), Arr(<<Obj, Str(<<"https://glo.or.th">>)>>))}

GuruResponses ==
    {Failure, Unparsable, EmptyText,
     Json(ArrayData(<<GuruStat("7", "Je Nook", 75)>>))}

AppResponses ==
    {Failure, Json(Object(WellFormedFields)), Json(Object(ShortPayloadFields))}

InitSpec ==
    /\ today = CutoffEve
    /\ resolved = NotResolved
    /\ aiCall = NoCall
    /\ ticks = 0
    /\ InitApp

\* useEffect(() => { fetchData() }, []): both requests are sent (lines 38-44).
Mount ==
    /\ fetchData = "idle"
    /\ fetchData' = "awaiting"
    /\ pastCall' = [NoCall EXCEPT !.state = "pending"]
    /\ guruCall' = [NoCall EXCEPT !.state = "pending",
                                  !.nextDrawDate = getNextDrawDate(today)]
    /\ UNCHANGED <<today, resolved, aiCall, ticks, currentSet, isRolling, mode,
                   error, pastDraw, loadingPast, guruStats, loadingGuru, timer>>

\* fetchData without the join: each result is published, and its loading
\* flag cleared, as soon as its own request has resolved.
FetchDataPublishesEach(past, guru) ==
    /\ fetchData' = IF past.state = "settled" /\ guru.state = "settled"
                    THEN "done" ELSE fetchData
    /\ pastDraw' = IF past.outcome.status = "resolved"
                   THEN past.outcome.value ELSE pastDraw
    /\ loadingPast' = (past.state # "settled")
    /\ guruStats' = IF guru.outcome.status = "resolved"
                    THEN guru.outcome.value ELSE guruStats
    /\ loadingGuru' = (guru.state # "settled")

\* The continuation of fetchData after await Promise.all (lines 45-52),
\* given the two calls as they now are: Promise.all rejects as soon as one
\* call rejects and resolves once both have resolved.
FetchDataContinues(past, guru) ==
    IF past.outcome.status = "rejected" \/ guru.outcome.status = "rejected"
    THEN /\ fetchData' = "done"
         /\ loadingPast' = FALSE /\ loadingGuru' = FALSE
         /\ UNCHANGED <<pastDraw, guruStats>>
    ELSE IF past.outcome.status = "resolved" /\ guru.outcome.status = "resolved"
    THEN /\ fetchData' = "done"
         /\ pastDraw' = past.outcome.value
         /\ guruStats' = guru.outcome.value
         /\ loadingPast' = FALSE /\ loadingGuru' = FALSE
    ELSE UNCHANGED <<fetchData, pastDraw, guruStats, loadingPast, loadingGuru>>

\* The past-draw request settles; getLatestDrawResults finishes and, when it
\* completes the Promise.all, fetchData continues.
PastSettles(r) ==
    /\ pastCall.state = "pending"
    /\ LET settled == [pastCall EXCEPT !.state = "settled", !.response = r,
                                       !.outcome = getLatestDrawResults(r)]
       IN  /\ pastCall' = settled
           /\ IF fetchData = "awaiting"
              THEN FetchDataContinues(settled, guruCall)
              ELSE UNCHANGED <<fetchData, pastDraw, guruStats, loadingPast, loadingGuru>>
    /\ UNCHANGED <<today, resolved, aiCall, ticks, currentSet, isRolling, mode,
                   error, timer, guruCall>>

\* The guru-roster request settles in the same way.
GuruSettles(r) ==
    /\ guruCall.state = "pending"
    /\ LET settled == [guruCall EXCEPT !.state = "settled", !.response = r,
                                       !.outcome = getGuruStats(r)]
       IN  /\ guruCall' = settled
           /\ IF fetchData = "awaiting"
              THEN FetchDataContinues(pastCall, settled)
              ELSE UNCHANGED <<fetchData, pastDraw, guruStats, loadingPast, loadingGuru>>
    /\ UNCHANGED <<today, resolved, aiCall, ticks, currentSet, isRolling, mode,
                   error, timer, pastCall>>

\* onClick={() => setMode(...)}: the four mode buttons are never disabled.
SetMode(m) ==
    /\ m # mode
    /\ mode' = m
    /\ UNCHANGED <<today, resolved, aiCall, ticks, currentSet, isRolling, error,
                   pastDraw, loadingPast, guruStats, loadingGuru, timer,
                   pastCall, guruCall, fetchData>>

\* handleGenerate behind a button that stays enabled while isRolling.
HandleGenerateNotDisabled ==
    /\ isRolling' = TRUE
    /\ error' = Null
    /\ LET nextDate == getNextDrawDate(today) IN
       IF mode = "RNG"
       THEN /\ timer' = [armed |-> TRUE, nextDate |-> nextDate]
            /\ UNCHANGED aiCall
       ELSE /\ aiCall' = [state |-> "pending", mode |-> mode,
                          nextDrawDate |-> nextDate,
                          prompt |-> buildPrompt(mode, nextDate),
                          response |-> NoResponse, outcome |-> Unsettled]
            /\ UNCHANGED timer
    /\ UNCHANGED <<today, resolved, ticks, currentSet, mode, pastDraw, loadingPast,
                   guruStats, loadingGuru, pastCall, guruCall, fetchData>>

\* handleGenerate up to its first suspension (lines 57-64, 76-79); the
\* button is disabled while isRolling.
HandleGenerate ==
    /\ ~isRolling
    /\ isRolling' = TRUE
    /\ error' = Null
    /\ LET nextDate == getNextDrawDate(today) IN
       IF mode = "RNG"
       THEN /\ timer' = [armed |-> TRUE, nextDate |-> nextDate]
            /\ UNCHANGED aiCall
       ELSE /\ aiCall' = [state |-> "pending", mode |-> mode,
                          nextDrawDate |-> nextDate,
                          prompt |-> buildPrompt(mode, nextDate),
                          response |-> NoResponse, outcome |-> Unsettled]
            /\ UNCHANGED timer
    /\ UNCHANGED <<today, resolved, ticks, currentSet, mode, pastDraw, loadingPast,
                   guruStats, loadingGuru, pastCall, guruCall, fetchData>>

\* The object literal of lines 65-73: twenty draws in order; reasoning,
\* confidence and sources are not set.
randomSet(stream, nextDate, now) ==
    [prize1 |-> generateString(6, stream, 0),
     front3 |-> <<generateString(3, stream, 6), generateString(3, stream, 9)>>,
     rear3 |-> <<generateString(3, stream, 12), generateString(3, stream, 15)>>,
     rear2 |-> generateString(2, stream, 18),
     source |-> "RNG", reasoning |-> Undefined, confidence |-> Undefined,
     sources |-> Undefined,
     drawDate |-> nextDate, timestamp |-> now]

\* The setTimeout callback, lines 64-75.
TimerFires(stream) ==
    /\ timer.armed
    /\ currentSet' = randomSet(stream, timer.nextDate, today)
    /\ isRolling' = FALSE
    /\ timer' = NoTimer
    /\ UNCHANGED <<today, resolved, aiCall, ticks, mode, error, pastDraw,
                   loadingPast, guruStats, loadingGuru, pastCall, guruCall, fetchData>>

\* handleGenerate's continuation with a catch block that swallows the error.
GenerateCompletesSilently(r) ==
    /\ isRolling /\ aiCall.state = "pending"
    /\ LET outcome == generateLuckyNumbersAI(aiCall.mode, aiCall.nextDrawDate, r, today)
       IN  /\ aiCall' = [aiCall EXCEPT !.state = "settled", !.response = r,
                                       !.outcome = outcome]
           /\ IF outcome.status = "resolved"
              THEN currentSet' = outcome.value /\ UNCHANGED error
              ELSE UNCHANGED <<error, currentSet>>
    /\ isRolling' = FALSE
    /\ UNCHANGED <<today, resolved, ticks, mode, pastDraw, loadingPast, guruStats,
                   loadingGuru, timer, pastCall, guruCall, fetchData>>

\* handleGenerate's continuation with setIsRolling(false) at the end of the
\* try block instead of in a finally block.
GenerateCompletesNoFinally(r) ==
    /\ isRolling /\ aiCall.state = "pending"
    /\ LET outcome == generateLuckyNumbersAI(aiCall.mode, aiCall.nextDrawDate, r, today)
       IN  /\ aiCall' = [aiCall EXCEPT !.state = "settled", !.response = r,
                                       !.outcome = outcome]
           /\ IF outcome.status = "resolved"
              THEN currentSet' = outcome.value /\ isRolling' = FALSE /\ UNCHANGED error
              ELSE /\ error' = Str(<<"The service is currently unreachable. Please try again or switch to Standard Random.">>)
                   /\ UNCHANGED <<currentSet, isRolling>>
    /\ UNCHANGED <<today, resolved, ticks, mode, pastDraw, loadingPast, guruStats,
                   loadingGuru, timer, pastCall, guruCall, fetchData>>

\* The prediction request settles: generateLuckyNumbersAI finishes and
\* handleGenerate continues after its await (lines 79-85).
GenerateCompletes(r) ==
    /\ isRolling /\ aiCall.state = "pending"
    /\ LET outcome == generateLuckyNumbersAI(aiCall.mode, aiCall.nextDrawDate, r, today)
       IN  /\ aiCall' = [aiCall EXCEPT !.state = "settled", !.response = r,
                                       !.outcome = outcome]
           /\ IF outcome.status = "resolved"
              THEN currentSet' = outcome.value /\ UNCHANGED error
              ELSE /\ error' = Str(<<"The service is currently unreachable. Please try again or switch to Standard Random.">>)
                   /\ UNCHANGED currentSet
    /\ isRolling' = FALSE
    /\ UNCHANGED <<today, resolved, ticks, mode, pastDraw, loadingPast, guruStats,
                   loadingGuru, timer, pastCall, guruCall, fetchData>>

Next ==
    \/ Mount
    \/ \E r \in PastResponses : PastSettles(r)
    \/ \E r \in GuruResponses : GuruSettles(r)
    \/ \E m \in GeneratorMode : SetMode(m)
    \/ HandleGenerate
    \/ \E stream \in RandomStreams : TimerFires(stream)
    \/ \E r \in AppResponses : GenerateCompletes(r)

Spec == InitSpec /\ [][Next]_vars

\* The steps of the generator panel: the mode buttons, the generate button
\* and the two ways a generation completes.  The mount-time fetch shares no
\* state with them.
NextGenerate ==
    \/ \E m \in GeneratorMode : SetMode(m)
    \/ HandleGenerate
    \/ \E stream \in RandomStreams : TimerFires(stream)
    \/ \E r \in AppResponses : GenerateCompletes(r)

\* The generator panel under the scheduling the event loop provides: an
\* armed 800 ms timer fires, and a pending external call settles, after which
\* the awaiting handleGenerate continues.
SpecLive ==
    /\ InitSpec /\ [][NextGenerate]_vars
    /\ WF_vars(\E stream \in RandomStreams : TimerFires(stream))
    /\ WF_vars(\E r \in AppResponses : GenerateCompletes(r))

-----------------------------------------------------------------------------
(* Properties of getNextDrawDate (SpecDate)                                *)

TargetsFirst(t) == t.day = 1 /\ t.hour < 16
TargetsSixteenth(t) ==
    \/ t.day = 1 /\ t.hour >= 16
    \/ t.day \in 2..15
    \/ t.day = 16 /\ t.hour < 16
TargetsNextMonth(t) ==
    \/ t.day = 16 /\ t.hour >= 16
    \/ t.day \in 17..31

\* C1: at every day of month and local hour, getNextDrawDate targets day 1
\* of the current month (day 1 before 16:00), day 16 of the current month
\* (day 1 from 16:00, days 2..15, day 16 before 16:00) or day 1 of the next
\* month (day 16 from 16:00, days 17..end); exactly one case applies.
C1_DrawDateCases ==
    resolved.done =>
        LET t == resolved.now
            label == resolved.label
        IN  /\ t.day \in 1..31 /\ t.hour \in 0..23
            /\ Cardinality({c \in {1, 2, 3} :
                    \/ c = 1 /\ TargetsFirst(t)
                    \/ c = 2 /\ TargetsSixteenth(t)
                    \/ c = 3 /\ TargetsNextMonth(t)}) = 1
            /\ TargetsFirst(t) =>
                    label = <<1, ThaiMonths[t.month + 1], t.year + 543>>
            /\ TargetsSixteenth(t) =>
                    label = <<16, ThaiMonths[t.month + 1], t.year + 543>>
            /\ TargetsNextMonth(t) =>
                    /\ label[1] = 1
                    /\ label[2] = ThaiMonths[((t.month + 1) % 12) + 1]

\* C1 witness: on the 16th at 16:00 sharp the target has moved to day 1.
C1_Witness ==
    /\ resolved.done
    /\ resolved.now.day = 16 /\ resolved.now.hour = 16 /\ resolved.now.month = 5
    /\ resolved.label = <<1, "Karakadakhom", resolved.now.year + 543>>

\* C2: when the target is day 1 of the next month, December rolls to
\* January 1 of the following year; any other month to day 1 of month+1 of
\* the same year.
C2_DecemberRollover ==
    (resolved.done /\ TargetsNextMonth(resolved.now)) =>
        LET t == resolved.now IN
        IF t.month = 11
        THEN resolved.label = <<1, "Makarakhom", t.year + 1 + 543>>
        ELSE resolved.label = <<1, ThaiMonths[t.month + 2], t.year + 543>>

\* C2 witness: 31 December resolves to 1 January of the next year.
C2_Witness ==
    /\ resolved.done
    /\ resolved.now.month = 11 /\ resolved.now.day = 31
    /\ resolved.label = <<1, "Makarakhom", resolved.now.year + 544>>

-----------------------------------------------------------------------------
(* Properties of generateLuckyNumbersAI (SpecService)                      *)

Settled == aiCall.state = "settled"
Returned == Settled /\ aiCall.outcome.status = "resolved"
\* The fields of the response when its text parsed to an object.
GotObject == Settled /\ aiCall.response.kind = "json" /\ aiCall.response.data.t = "object"
Got == aiCall.response.data.fields
Record == aiCall.outcome.value

AllDigits(str) == \A i \in 1..Len(str) : str[i] \in Digits
Zeros(n) == [i \in 1..n |-> "0"]

\* C3: every returned record has a 6-character prize1, a 2-character rear2,
\* exactly two 3-character entries in front3 and in rear3, and only decimal
\* digits in all of them, whatever the upstream payload.
C3_DigitStringsOnly ==
    Returned =>
        /\ Len(Record.prize1) = 6 /\ AllDigits(Record.prize1)
        /\ Len(Record.rear2) = 2 /\ AllDigits(Record.rear2)
        /\ Len(Record.front3) = 2 /\ Len(Record.rear3) = 2
        /\ \A i \in 1..2 :
              /\ Len(Record.front3[i]) = 3 /\ AllDigits(Record.front3[i])
              /\ Len(Record.rear3[i]) = 3 /\ AllDigits(Record.rear3[i])

\* Pad with '0' on the right to the width, or cut to the first width
\* characters; absent and empty give all zeros.
PadOrCut(str, width) ==
    [i \in 1..width |-> IF i <= Len(str) THEN str[i] ELSE "0"]

\* C4: prize1 (width 6) and rear2 (width 2) are the returned string
\* right-padded with '0' or cut to the width, all zeros for an absent field
\* or an empty string; {prize1:"12", front3:["5"], rear2:""} gives
\* '120000', ['500','000'], '00'.
C4_ScalarNormalization ==
    /\ (GotObject /\ Returned) =>
          /\ Got.prize1.t \in {"undefined", "string"} =>
                Record.prize1 = PadOrCut(Got.prize1.s, 6)
          /\ Got.rear2.t \in {"undefined", "string"} =>
                Record.rear2 = PadOrCut(Got.rear2.s, 2)
    /\ (GotObject /\ Got = ShortPayloadFields) =>
          /\ Returned
          /\ Record.prize1 = <<"1", "2", "0", "0", "0", "0">>
          /\ Record.front3 = << <<"5", "0", "0">>, <<"0", "0", "0">> >>
          /\ Record.rear2 = <<"0", "0">>

\* C4 witness: the short payload was normalized.
C4_Witness ==
    /\ GotObject /\ Returned /\ Got = ShortPayloadFields
    /\ Record.prize1 = <<"1", "2", "0", "0", "0", "0">>

\* The first two entries, each padded or cut to 3, then '000' entries.
FirstTwoPadded(field) ==
    LET given == IF field.t = "array" THEN field.a ELSE <<>>
    IN  [i \in 1..2 |-> IF i <= Len(given) THEN PadOrCut(given[i].s, 3) ELSE Zeros(3)]

\* C5: front3 and rear3 are the first two returned entries in order, each
\* padded or cut to 3 characters, followed by '000' entries when fewer than
\* two were returned; a missing array counts as empty.
C5_ArrayNormalization ==
    (GotObject /\ Returned) =>
        /\ Got.front3.t \in {"undefined", "array"} =>
              Record.front3 = FirstTwoPadded(Got.front3)
        /\ Got.rear3.t \in {"undefined", "array"} =>
              Record.rear3 = FirstTwoPadded(Got.rear3)

\* C5 witness: three entries were returned, the first too long and the
\* second too short; the first two are kept in order.
C5_Witness ==
    /\ GotObject /\ Returned
    /\ Got.front3.t = "array" /\ Len(Got.front3.a) = 3
    /\ Len(Got.front3.a[1].s) > 3 /\ Len(Got.front3.a[2].s) = 2
    /\ Record.front3 = << <<"1", "2", "3">>, <<"1", "2", "0">> >>

DefaultsRecord(r) ==
    /\ r.prize1 = Zeros(6)
    /\ r.front3 = <<Zeros(3), Zeros(3)>>
    /\ r.rear3 = <<Zeros(3), Zeros(3)>>
    /\ r.rear2 = Zeros(2)
    /\ r.reasoning = Str(<<"Analysis complete.">>)
    /\ r.confidence = Undefined
    /\ r.sources = Arr(<<>>)

\* C7 as stated: a response text that cannot be parsed makes the call
\* succeed with the all-defaults record, like an empty text.
C7_UnparsableGivesDefaults ==
    (Settled /\ aiCall.response.kind = "unparsable") =>
        (Returned /\ DefaultsRecord(Record))

\* C7 amended: an absent or empty response text is read as an empty object
\* and gives the all-defaults record; a text that cannot be parsed makes the
\* call reject with no record.
C7_UnparsableRejects ==
    /\ (Settled /\ aiCall.response.kind \in {"notext", "emptytext"}) =>
          (Returned /\ DefaultsRecord(Record))
    /\ (GotObject /\ Got = NoFields) =>
          (Returned /\ DefaultsRecord(Record))
    /\ (Settled /\ aiCall.response.kind = "unparsable") =>
          /\ aiCall.outcome.status = "rejected"
          /\ aiCall.outcome.error = "Failed to consult the oracle."
          /\ Record = NoSet

\* C7 witness: an unparsable text was received and the call rejected.
C7_Witness ==
    /\ Settled /\ aiCall.response.kind = "unparsable"
    /\ aiCall.outcome.status = "rejected"

IsStringArray(v) == v.t = "array" /\ \A i \in 1..Len(v.a) : v.a[i].t = "string"

\* The declared output schema: required prize1, rear2, reasoning strings and
\* front3, rear3 arrays of strings; optional numeric confidence and string
\* array sources.
MatchesSchema(f) ==
    /\ f.prize1.t = "string" /\ f.rear2.t = "string" /\ f.reasoning.t = "string"
    /\ IsStringArray(f.front3) /\ IsStringArray(f.rear3)
    /\ f.confidence.t \in {"undefined", "number"}
    /\ f.sources.t = "undefined" \/ IsStringArray(f.sources)

\* C8 as stated: a response that violates the schema makes the call reject
\* and produce no record.
C8_SchemaViolationRejects ==
    (GotObject /\ ~MatchesSchema(Got)) => aiCall.outcome.status = "rejected"

\* Normalization cannot be applied: a scalar digit field that is neither
\* absent, null nor a string; an array field that is truthy and not an
\* array, or holds an entry that is not a string.
NotNormalizable(f) ==
    \/ f.prize1.t \notin {"undefined", "null", "string"}
    \/ f.rear2.t \notin {"undefined", "null", "string"}
    \/ \E v \in {f.front3, f.rear3} : Truthy(v) /\ ~IsStringArray(v)

\* C8 amended: an absent or null required field does not fail the call, the
\* field is defaulted; the call rejects as a whole, with no record, exactly
\* when prize1 or rear2 is a non-null non-string or front3 or rear3 is a
\* non-empty value that is not an array of strings.
C8_RejectsOnlyUnusableTypes ==
    GotObject =>
        /\ aiCall.outcome.status = "rejected" <=> NotNormalizable(Got)
        /\ aiCall.outcome.status = "rejected" => Record = NoSet
        /\ aiCall.outcome.status \in {"rejected", "resolved"}

\* C8 witness: every required field is absent and a defaulted record is
\* returned.
C8_Witness ==
    /\ GotObject /\ Got = NoFields
    /\ Returned /\ Record.prize1 = Zeros(6)

-----------------------------------------------------------------------------
(* Properties of the App and its service calls (Spec)                      *)

\* C6: when the external prediction call fails in mode AI, HISTORY or GURU,
\* generateLuckyNumbersAI rejects and returns no LotterySet; the App then
\* holds a non-null error and currentSet is as it was before the request;
\* after a successful generation error is null.
C6_FailedGenerationKeepsSet ==
    [][ (isRolling /\ aiCall.state = "pending") =>
            /\ aiCall.mode \in {"AI", "HISTORY", "GURU"}
            /\ error = Null
            /\ aiCall'.state = "pending" => currentSet' = currentSet
            /\ (aiCall'.state = "settled" /\ aiCall'.response.kind = "failure") =>
                  /\ aiCall'.outcome.status = "rejected"
                  /\ aiCall'.outcome.value = NoSet
                  /\ error' # Null
                  /\ currentSet' = currentSet
            /\ (aiCall'.state = "settled" /\ aiCall'.outcome.status = "resolved") =>
                  /\ error' = Null
                  /\ currentSet' = aiCall'.outcome.value
      ]_vars

\* C6 witness: a HISTORY request failed after an earlier GURU success; the
\* error is shown and the GURU set is still the current one.
C6_Witness ==
    /\ ~isRolling
    /\ aiCall.state = "settled" /\ aiCall.mode = "HISTORY"
    /\ aiCall.response.kind = "failure" /\ aiCall.outcome.status = "rejected"
    /\ error # Null
    /\ currentSet.source = "GURU"

\* The external call or the parsing of its text failed.
CallFailed(call) ==
    /\ call.state = "settled"
    /\ \/ call.response.kind \in {"failure", "unparsable"}
       \/ call.response.kind = "json" /\ call.response.data.t = "null"

Marks(n) == [i \in 1..n |-> "?"]

\* C9: getLatestDrawResults never rejects; on any failure of the external
\* call or of parsing it resolves to the fixed sentinel record ('??????',
\* ['???','???'], ['???','???'], '??', the failure date label, no
\* sourceUrl); the App receives a record from it, never an error.
C9_LatestDrawFailsSoft ==
    /\ pastCall.outcome.status # "rejected"
    /\ pastCall.state = "settled" => pastCall.outcome.status = "resolved"
    /\ CallFailed(pastCall) =>
          pastCall.outcome.value =
              [date |-> Str(<<"lot khomun lomleo">>),
               prize1 |-> Str(Marks(6)),
               front3 |-> Arr(<<Str(Marks(3)), Str(Marks(3))>>),
               rear3 |-> Arr(<<Str(Marks(3)), Str(Marks(3))>>),
               rear2 |-> Str(Marks(2)),
               sourceUrl |-> Undefined]
    /\ fetchData = "done" => (pastDraw # Null /\ pastDraw = pastCall.outcome.value)

\* C9 witness: the past-draw request failed and the App shows the sentinel.
C9_Witness ==
    /\ pastCall.state = "settled" /\ pastCall.response.kind = "failure"
    /\ fetchData = "done" /\ ~loadingPast
    /\ pastDraw.prize1 = Str(Marks(6))

\* C10 as stated: getGuruStats never rejects and on any failure resolves to
\* an empty list, so that the App's guruStats is then empty.
C10_GuruFailureGivesEmptyList ==
    /\ guruCall.outcome.status # "rejected"
    /\ CallFailed(guruCall) =>
          /\ guruCall.outcome.value = ArrayData(<<>>)
          /\ fetchData = "done" => guruStats = ArrayData(<<>>)

\* C10 amended: getGuruStats never rejects; on any failure of the external
\* call or of parsing it resolves to the fixed fallback roster of two
\* entries (ids "1" and "2"), which is then the App's guruStats.
C10_GuruFailureGivesFallbackRoster ==
    /\ guruCall.outcome.status # "rejected"
    /\ guruCall.state = "settled" => guruCall.outcome.status = "resolved"
    /\ CallFailed(guruCall) =>
          /\ guruCall.outcome.value.t = "array"
          /\ guruCall.outcome.value.items =
                <<[id |-> "1", name |-> "Mae Nam Nueng", accuracy |-> 88],
                  [id |-> "2", name |-> "Thai Lotto AI", accuracy |-> 92]>>
          /\ fetchData = "done" => guruStats = guruCall.outcome.value

\* C10 witness: the roster request failed and the App holds the two
\* fallback entries.
C10_Witness ==
    /\ guruCall.state = "settled" /\ guruCall.response.kind = "failure"
    /\ fetchData = "done" /\ ~loadingGuru
    /\ Len(guruStats.items) = 2

-----------------------------------------------------------------------------
(* Properties of the record's provenance fields (SpecService)              *)

\* C11: the confidence of the returned record equals the number in the
\* response for every returned number in 0..100, 0 included, and is unset
\* exactly when the response has no confidence field.
C11_ConfidenceKept ==
    (GotObject /\ Returned) =>
        /\ (Got.confidence.t = "number" /\ Got.confidence.n \in 0..100) =>
              Record.confidence = Got.confidence
        /\ Record.confidence = Undefined <=> Got.confidence.t = "undefined"

\* C12: a successful call in mode AI, HISTORY or GURU returns a record whose
\* source is that mode, whatever the response contains, and no call, with
\* any mode value, returns a record with source RNG.
C12_SourceIsRequestedMode ==
    Returned =>
        /\ aiCall.mode \in {"AI", "HISTORY", "GURU"} => Record.source = aiCall.mode
        /\ Record.source # "RNG"

\* C12 witness: a GURU call returned source GURU although the response
\* carried its own source field.
C12_Witness ==
    /\ GotObject /\ Returned
    /\ aiCall.mode = "GURU" /\ Got.source = Str(<<"RNG">>)
    /\ Record.source = "GURU"

\* C13: drawDate and timestamp of the returned record are stamped by the
\* service: the draw-date label is resolved once when the call starts, is the
\* label embedded in the prompt, stays the call's label while the request
\* is pending and is the record's drawDate; the timestamp is the clock at
\* return; responses that differ only in a drawDate or timestamp field give
\* the same drawDate.
C13_DrawDateStampedByService ==
    [][ /\ (aiCall.state = "none" /\ aiCall'.state = "pending") =>
              /\ aiCall'.nextDrawDate = getNextDrawDate(today)
              /\ aiCall'.prompt.drawDate = aiCall'.nextDrawDate
        /\ aiCall.state = "pending" =>
              /\ aiCall'.nextDrawDate = aiCall.nextDrawDate
              /\ aiCall'.prompt = aiCall.prompt
        /\ (aiCall.state = "pending" /\ aiCall'.state = "settled"
               /\ aiCall'.outcome.status = "resolved") =>
              /\ aiCall'.outcome.value.drawDate = aiCall.nextDrawDate
              /\ aiCall'.outcome.value.drawDate = aiCall.prompt.drawDate
              /\ aiCall'.outcome.value.timestamp = today'
              /\ (aiCall'.response.kind = "json" /\ aiCall'.response.data.t = "object") =>
                    \A d \in DrawDateValues, t \in TimestampValues :
                        generateLuckyNumbersAI(
                            aiCall.mode, aiCall.nextDrawDate,
                            Json(Object([aiCall'.response.data.fields
                                           EXCEPT !.drawDate = d, !.timestamp = t])),
                            today').value.drawDate
                          = aiCall'.outcome.value.drawDate
      ]_vars

\* C13 witness: the cutoff passed while the request was pending and the
\* response carried a drawDate; the record has the label resolved at the
\* start of the call, which is no longer the next draw date.
C13_Witness ==
    /\ GotObject /\ Returned
    /\ ticks = 1
    /\ Got.drawDate.t = "string" /\ Got.timestamp.t = "number"
    /\ Record.drawDate = <<16, "Thanwakhom", FirstYear + 543>>
    /\ getNextDrawDate(today) # Record.drawDate

-----------------------------------------------------------------------------
(* Properties of the local Random path (Spec)                              *)

\* The twenty characters of a set, in drawing order.
SetDigits(set) ==
    set.prize1 \o set.front3[1] \o set.front3[2]
        \o set.rear3[1] \o set.rear3[2] \o set.rear2

\* The characters the timer callback can put at each of the twenty positions.
ReachableDigits ==
    [p \in 1..20 |->
        {SetDigits(randomSet(stream, NoLabel, NoTime))[p] : stream \in RandomStreams}]

\* A step of the Random path: a request in mode RNG arms the timer, makes no
\* external call and can lead to every digit at every position; no call is
\* made while the timer runs; the set the timer installs has a 6-character
\* prize1, two 3-character entries in front3 and in rear3, a 2-character
\* rear2, only digits 0..9, source RNG, reasoning and confidence unset and
\* the given sources value.
RandomPathStep(sources) ==
    /\ (~isRolling /\ isRolling' /\ mode = "RNG") =>
          /\ timer'.armed /\ aiCall' = aiCall
          /\ \A p \in 1..20 : ReachableDigits[p] = Digits
    /\ timer.armed => aiCall' = aiCall
    /\ (timer.armed /\ ~timer'.armed) =>
          /\ Len(currentSet'.prize1) = 6 /\ Len(currentSet'.rear2) = 2
          /\ Len(currentSet'.front3) = 2 /\ Len(currentSet'.rear3) = 2
          /\ \A i \in 1..2 : Len(currentSet'.front3[i]) = 3 /\ Len(currentSet'.rear3[i]) = 3
          /\ Len(SetDigits(currentSet')) = 20 /\ AllDigits(SetDigits(currentSet'))
          /\ currentSet'.source = "RNG"
          /\ currentSet'.reasoning = Undefined /\ currentSet'.confidence = Undefined
          /\ currentSet'.sources = sources
          /\ aiCall' = aiCall

\* C14 as stated: every set produced by the Random path has the digit
\* format, source RNG, reasoning and confidence unset and an empty list of
\* attributed sources, and no external call is made.
C14_RandomSetSourcesEmpty == [][RandomPathStep(Arr(<<>>))]_vars

\* C14 amended: every set produced by the Random path has the digit format
\* with every digit possible at every position, source RNG, and reasoning,
\* confidence and sources all unset (sources is absent, not an empty list);
\* no external call is made.
C14_RandomSetSourcesUnset == [][RandomPathStep(Undefined)]_vars

\* C14 witness: the timer installed a random set whose first digit is 9
\* while an earlier AI request is the only external call there has been.
C14_Witness ==
    /\ ~isRolling /\ ~timer.armed
    /\ currentSet.source = "RNG" /\ currentSet.prize1[1] = "9"
    /\ currentSet.prize1 # currentSet.front3[1] \o currentSet.front3[2]
    /\ currentSet.sources = Undefined
    /\ aiCall.state = "settled"

-----------------------------------------------------------------------------
(* Properties of the mount-time fetch (Spec)                               *)

\* C15: the past-draw and guru-roster queries are issued together on mount
\* and joined: while either is still pending neither pastDraw nor guruStats
\* is published and both loading flags stay set, whichever completes
\* first; once both have completed both results are published and both
\* loading flags are false.
C15_MountQueriesJoined ==
    /\ pastCall.state = "none" <=> guruCall.state = "none"
    /\ pastCall.state = "none" <=> fetchData = "idle"
    /\ (pastCall.state # "settled" \/ guruCall.state # "settled") =>
          /\ pastDraw = Null /\ guruStats = ArrayData(<<>>)
          /\ loadingPast /\ loadingGuru
    /\ (pastCall.state = "settled" /\ guruCall.state = "settled") =>
          /\ pastDraw = pastCall.outcome.value
          /\ guruStats = guruCall.outcome.value
          /\ ~loadingPast /\ ~loadingGuru

\* C15 witness: the roster query has completed and the past-draw query is
\* still pending; nothing is published and both spinners still show.
C15_Witness ==
    /\ guruCall.state = "settled" /\ guruCall.outcome.status = "resolved"
    /\ pastCall.state = "pending"
    /\ pastDraw = Null /\ guruStats = ArrayData(<<>>)
    /\ loadingPast /\ loadingGuru

-----------------------------------------------------------------------------
(* Properties of the generation in flight (Spec)                           *)

\* A generation is in flight: the timer runs or the external call is pending.
InFlight(t, call) == t.armed \/ call.state = "pending"

\* C16: at most one generation is in flight at any time: a request starts
\* only while isRolling is false, isRolling is true exactly from the start
\* of a generation to its completion (the timer firing in mode RNG, the
\* external call settling otherwise), nothing starts or completes within
\* that span except by that completion, and currentSet is replaced only by
\* the completion step, so at most once per request, also when the mode is
\* changed while the generation is pending.
C16_OneGenerationInFlight ==
    [][ /\ isRolling <=> InFlight(timer, aiCall)
        /\ isRolling' <=> InFlight(timer', aiCall')
        /\ ~(timer.armed /\ aiCall.state = "pending")
        /\ ~(timer'.armed /\ aiCall'.state = "pending")
        /\ (timer'.armed /\ ~timer.armed) => ~isRolling
        /\ (aiCall'.state = "pending" /\ aiCall' # aiCall) => ~isRolling
        /\ (isRolling /\ isRolling') =>
              (currentSet' = currentSet /\ timer' = timer /\ aiCall' = aiCall)
        /\ (isRolling /\ ~isRolling') =>
              \/ timer.armed /\ ~timer'.armed /\ aiCall' = aiCall
              \/ aiCall.state = "pending" /\ aiCall'.state = "settled" /\ timer' = timer
        /\ currentSet' # currentSet => (isRolling /\ ~isRolling')
      ]_vars

\* C16 witness: the mode was changed to RNG while a GURU request is pending;
\* the request is still the only generation and the set is the initial one.
C16_Witness ==
    /\ isRolling /\ aiCall.state = "pending" /\ aiCall.mode = "GURU"
    /\ mode = "RNG" /\ ~timer.armed
    /\ currentSet.prize1 = Dashes(6)

\* C17: every generate request eventually returns isRolling to false, in
\* every mode and on success and on failure, given that the timer fires and
\* the external call eventually resolves or rejects; the App is never left
\* rolling for ever with the generate button disabled.
C17_RollingEnds == isRolling ~> ~isRolling

\* C17 witness: a HISTORY request that failed has returned isRolling to
\* false, after a random generation that completed before it.
C17_Witness ==
    /\ ~isRolling
    /\ aiCall.state = "settled" /\ aiCall.mode = "HISTORY"
    /\ aiCall.outcome.status = "rejected"
    /\ currentSet.source = "RNG" /\ currentSet.prize1 # Dashes(6)
    /\ ~InFlight(timer, aiCall)

-----------------------------------------------------------------------------
(* The target of getNextDrawDate as the earliest open draw (SpecDate)      *)

\* The calendar date a label denotes.
LabelDate(label) ==
    [year |-> label[3] - 543,
     month |-> (CHOOSE i \in 1..12 : ThaiMonths[i] = label[2]) - 1,
     day |-> label[1]]

\* Days are ordered by year, month and day.
DayKey(d) == (d.year * 12 + d.month) * 31 + d.day

\* Every 1st and 16th from the first year to the year after the last.
DrawDays ==
    [year : FirstYear..(FirstYear + MaxYears), month : 0..11, day : {1, 16}]

\* The 16:00 cutoff of draw day d is strictly later than the time now.
CutoffAhead(d, now) ==
    \/ DayKey(d) > DayKey(now)
    \/ DayKey(d) = DayKey(now) /\ now.hour < 16

\* C18: for every current time the date targeted by getNextDrawDate is a 1st
\* or a 16th, is not earlier than the current calendar day, has its 16:00
\* cutoff strictly later than the current time, and no 1st or 16th whose
\* cutoff has not passed lies before it.
C18_EarliestOpenDraw ==
    resolved.done =>
        LET target == LabelDate(resolved.label) IN
        /\ target.day \in {1, 16}
        /\ target \in DrawDays
        /\ DayKey(target) >= DayKey(resolved.now)
        /\ CutoffAhead(target, resolved.now)
        /\ \A d \in DrawDays :
              CutoffAhead(d, resolved.now) => DayKey(target) <= DayKey(d)

\* C18 witness: at 15:00 on the 16th the target is the current day itself;
\* the cutoff is one hour ahead.
C18_Witness ==
    /\ resolved.done
    /\ resolved.now.day = 16 /\ resolved.now.hour = 15 /\ resolved.now.month = 1
    /\ LabelDate(resolved.label) =
          [year |-> resolved.now.year, month |-> 1, day |-> 16]

-----------------------------------------------------------------------------
(* Properties of what the App displays (Spec)                              *)

\* The condition of line 216 under which the reasoning panel is rendered.
ReasoningPanelShown ==
    mode # "RNG" /\ Truthy(currentSet.reasoning) /\ ~isRolling

\* C19: whenever the reasoning panel is displayed the selected mode equals
\* the source of currentSet, so the heading chosen by the mode names the
\* strategy that produced the displayed numbers.
C19_PanelHeadingMatchesSource ==
    ReasoningPanelShown => mode = currentSet.source

\* C20: once loadingPast is false pastDraw is not null: the mount-time fetch
\* has published the result of getLatestDrawResults, which is the sentinel
\* record when the request failed, so loading never finishes with pastDraw
\* null.
C20_PastDrawNeverMissing ==
    /\ ~loadingPast => pastDraw # Null
    /\ ~loadingPast =>
          /\ pastCall.state = "settled" /\ pastCall.outcome.status = "resolved"
          /\ pastDraw = pastCall.outcome.value
          /\ CallFailed(pastCall) => pastDraw = FailedPastDraw
    /\ ~(fetchData = "done" /\ ~loadingPast /\ pastDraw = Null)

\* C20 witness: both mount-time requests failed at the endpoint; loading has
\* finished and pastDraw is the sentinel record.
C20_Witness ==
    /\ ~loadingPast /\ fetchData = "done"
    /\ pastCall.response.kind = "unparsable" /\ guruCall.response.kind = "failure"
    /\ pastDraw = FailedPastDraw

====
